---- MODULE Spec2Model ----
(***************************************************************************)
(* Job lifecycle tracker of studio-juai-pro (backend/main.py) together     *)
(* with the status adapters of backend/factory_engine.py.                  *)
(*                                                                         *)
(* State: the in-memory job registry task_store and the background         *)
(* pollers that FastAPI's BackgroundTasks run, one coroutine per accepted  *)
(* submission.  A poller iteration (sleep, status query, registry writes)  *)
(* has no await between the answer of the query and the last write, so it  *)
(* is one atomic step of the asyncio event loop; the same holds for the    *)
(* registry write of a submission handler.                                 *)
(***************************************************************************)
EXTENDS Integers, Sequences, FiniteSets, TLC

VARIABLES
    creds,       \* providers whose credentials are present in the environment
    task_store,  \* main.py task_store: registry key -> entry
    pollers,     \* background tasks in the order they were added
    submitted,   \* number of submissions accepted so far
    last         \* observation of the latest operation: its result and the
                 \* provider calls it made (recorded in SpecCalls only)

tvars == <<creds, task_store, pollers, submitted>>
vars == <<creds, task_store, pollers, submitted, last>>

(***************************************************************************)
(* Bounds of the exploration.                                              *)
(***************************************************************************)
\* accepted submissions explored in Spec
MaxSubmissions == 2
\* iterations each poller performs in Spec
MaxPolls == 1
\* video urls of a compose request
MaxSources == 3

ProjectIds == {"p1"}

None == "None"
Url == "u1"
SourceUrl == "src"

AllProviders == {"kling", "goapi", "heygen", "creatomate"}
CredConfigs == {AllProviders, {"goapi", "heygen"}}

VideoModels == {"kling", "veo", "sora"}

Canonical == {"pending", "processing", "completed", "failed"}
Terminal == {"completed", "failed"}

Min(a, b) == IF a < b THEN a ELSE b
Max(a, b) == IF a > b THEN a ELSE b

TaskId(n) == "task_" \o ToString(n)

(***************************************************************************)
(* Response dataclasses (VideoResponse / ImageResponse) with the defaults  *)
(* of their declarations: status "pending", progress 0, no url, message "" *)
(***************************************************************************)
VideoResponse(success, task_id, video_url, status, message, progress) ==
    [success |-> success, task_id |-> task_id, video_url |-> video_url,
     status |-> status, message |-> message, progress |-> progress]

ErrorResponse(message) ==
    VideoResponse(FALSE, None, None, "error", message, 0)

(***************************************************************************)
(* Answers of the providers to a status query.  ok = FALSE stands for      *)
(* every path that ends in the adapter's error response: HTTP status other *)
(* than 200, an application code other than success, or an exception.      *)
(***************************************************************************)
KlingFailure == [ok |-> FALSE, task_status |-> "processing", has_video |-> FALSE]

KlingAnswers ==
    {KlingFailure}
    \cup [ok : {TRUE},
          task_status : {"submitted", "processing", "failed", "staged"},
          has_video : {FALSE}]
    \cup [ok : {TRUE}, task_status : {"succeed"}, has_video : BOOLEAN]

\* shape of data.output in a GoAPI task answer
NoOutput == [works |-> FALSE, work_resource |-> FALSE, video_url |-> FALSE, url |-> FALSE]

GoAPIOutputs ==
    { NoOutput,
      [works |-> TRUE,  work_resource |-> TRUE,  video_url |-> FALSE, url |-> FALSE],
      [works |-> TRUE,  work_resource |-> FALSE, video_url |-> TRUE,  url |-> FALSE],
      [works |-> FALSE, work_resource |-> FALSE, video_url |-> TRUE,  url |-> FALSE],
      [works |-> FALSE, work_resource |-> FALSE, video_url |-> FALSE, url |-> TRUE] }

GoAPIFailure == [ok |-> FALSE, status |-> "processing", output |-> NoOutput, percent |-> 0]

GoAPIAnswers ==
    {GoAPIFailure}
    \cup [ok : {TRUE}, status : {"pending", "staged", "failed"},
          output : {NoOutput}, percent : {0}]
    \cup [ok : {TRUE}, status : {"processing"},
          output : {NoOutput}, percent : {0, 55, 95}]
    \cup [ok : {TRUE}, status : {"completed", "succeed"},
          output : GoAPIOutputs, percent : {0}]

\* A provider knows the task ids it issued itself: asked about a task of
\* another provider it answers with a failure.
VideoAnswers(model) ==
    IF model = "kling"
    THEN KlingAnswers \X {GoAPIFailure}
    ELSE {KlingFailure} \X GoAPIAnswers

(***************************************************************************)
(* KlingOfficialClient.check_status                                        *)
(***************************************************************************)
KlingStatusMap(status) ==
    CASE status = "submitted"  -> "processing"
      [] status = "processing" -> "processing"
      [] status = "succeed"    -> "completed"
      [] status = "failed"     -> "failed"
      [] OTHER                 -> status

KlingCheckStatus(task_id, ans) ==
    IF "kling" \notin creds THEN ErrorResponse("no api key")
    ELSE IF ~ans.ok THEN ErrorResponse("status query failed")
    ELSE LET mapped_status == KlingStatusMap(ans.task_status)
             video_url == IF mapped_status = "completed" /\ ans.has_video
                          THEN Url ELSE None
             progress == IF mapped_status = "completed" THEN 100
                         ELSE IF mapped_status = "failed" THEN 0
                         ELSE 50
         IN VideoResponse(TRUE, task_id, video_url, mapped_status, "", progress)

(***************************************************************************)
(* GoAPIClient.check_status                                                *)
(***************************************************************************)
GoAPIExtractUrl(output, model) ==
    LET from_works == IF output.works /\ (output.work_resource \/ output.video_url)
                      THEN Url ELSE None
    IN IF from_works = None /\ model = "veo"
       THEN (IF output.video_url \/ output.url THEN Url ELSE None)
       ELSE from_works

GoAPICheckStatus(task_id, model, ans) ==
    IF "goapi" \notin creds THEN ErrorResponse("no api key")
    ELSE IF ~ans.ok THEN ErrorResponse("status query failed")
    ELSE IF ans.status \in {"completed", "succeed"}
         THEN VideoResponse(TRUE, task_id, GoAPIExtractUrl(ans.output, model),
                            "completed", "", 100)
    ELSE IF ans.status = "failed"
         THEN VideoResponse(TRUE, task_id, None, "failed", "", 0)
    ELSE IF ans.status = "pending"
         THEN VideoResponse(TRUE, task_id, None, "pending", "", 10)
    ELSE IF ans.status = "processing"
         THEN VideoResponse(TRUE, task_id, None, "processing", "",
                            Min(90, Max(20, ans.percent)))
    ELSE VideoResponse(TRUE, task_id, None, ans.status, "", 50)

(***************************************************************************)
(* FactoryEngine.check_video_status (source = "auto")                      *)
(***************************************************************************)
CheckVideoStatus(task_id, model, kans, gans) ==
    IF model = "kling" /\ "kling" \in creds
       /\ KlingCheckStatus(task_id, kans).success
    THEN KlingCheckStatus(task_id, kans)
    ELSE GoAPICheckStatus(task_id, model, gans)

(***************************************************************************)
(* GoAPIClient.check_image_status                                          *)
(***************************************************************************)
ImageResponse(success, task_id, image_url, status, message) ==
    [success |-> success, task_id |-> task_id, image_url |-> image_url,
     status |-> status, message |-> message]

\* answers of GoAPI to the task query of an image or music task
TaskAnswers ==
    [ok : {FALSE}, status : {"processing"}, has_url : {FALSE}]
    \cup [ok : {TRUE}, status : {"pending", "processing", "staged", "failed"},
          has_url : {FALSE}]
    \cup [ok : {TRUE}, status : {"completed", "succeed"}, has_url : BOOLEAN]

GoAPICheckImageStatus(task_id, ans) ==
    IF "goapi" \notin creds
    THEN ImageResponse(FALSE, None, None, "error", "no api key")
    ELSE IF ~ans.ok
    THEN ImageResponse(FALSE, None, None, "error", "status query failed")
    ELSE IF ans.status \in {"completed", "succeed"}
    THEN ImageResponse(TRUE, task_id, IF ans.has_url THEN Url ELSE None,
                       "completed", "image generated")
    ELSE IF ans.status = "failed"
    THEN ImageResponse(FALSE, task_id, None, "failed", "image generation failed")
    ELSE ImageResponse(TRUE, task_id, None, ans.status, "generating image")

(***************************************************************************)
(* HeyGenClient.check_status and CreatomateClient.check_render_status:     *)
(* the provider's status word and url field are passed through             *)
(***************************************************************************)
HeyGenAnswers ==
    [ok : {FALSE}, status : {"processing"}, has_url : {FALSE}]
    \cup [ok : {TRUE}, status : {"waiting", "failed"}, has_url : {FALSE}]
    \cup [ok : {TRUE}, status : {"processing", "completed"}, has_url : BOOLEAN]

HeyGenCheckStatus(video_id, ans) ==
    IF "heygen" \notin creds THEN ErrorResponse("no api key")
    ELSE IF ~ans.ok THEN ErrorResponse("status query failed")
    ELSE VideoResponse(TRUE, video_id, IF ans.has_url THEN Url ELSE None,
                       ans.status, "",
                       IF ans.status = "completed" THEN 100
                       ELSE IF ans.status = "failed" THEN 0
                       ELSE 50)

CreatomateAnswers ==
    [ok : {FALSE}, status : {"rendering"}, has_url : {FALSE}]
    \cup [ok : {TRUE}, status : {"failed"}, has_url : {FALSE}]
    \cup [ok : {TRUE}, status : {"rendering", "succeeded"}, has_url : BOOLEAN]

CreatomateCheckRenderStatus(render_id, ans) ==
    IF "creatomate" \notin creds THEN ErrorResponse("no api key")
    ELSE IF ~ans.ok THEN ErrorResponse("status query failed")
    ELSE VideoResponse(TRUE, render_id, IF ans.has_url THEN Url ELSE None,
                       IF ans.status = "succeeded" THEN "completed" ELSE ans.status,
                       "",
                       IF ans.status = "succeeded" THEN 100
                       ELSE IF ans.status = "failed" THEN 0
                       ELSE 50)

(***************************************************************************)
(* Registry helpers                                                        *)
(***************************************************************************)
\* error_message is the error text the entry holds: the key error_message of
\* a video entry, the key message of an image entry after a failure.
Entry(task_id, model, status, progress, url) ==
    [task_id |-> task_id, model |-> model, status |-> status,
     progress |-> progress, url |-> url, error_message |-> None]

Put(store, key, entry) ==
    [k \in DOMAIN store \cup {key} |-> IF k = key THEN entry ELSE store[k]]

\* A background task: the arguments it was added with, the loop variable
\* attempt (number of iterations done) and its position pc.  signalled is a
\* history field: some answer to this poller carried a terminal status.
Poller(kind, key, task_id, model) ==
    [kind |-> kind, key |-> key, task_id |-> task_id, model |-> model,
     attempt |-> 0, pc |-> "running", signalled |-> FALSE]

max_attempts_video == 200
max_attempts_image == 60
max_attempts_avatar == 120
max_attempts_edit == 60
max_attempts_music == 60

max_attempts(kind) ==
    CASE kind = "video"  -> max_attempts_video
      [] kind = "image"  -> max_attempts_image
      [] kind = "avatar" -> max_attempts_avatar
      [] kind = "edit"   -> max_attempts_edit
      [] kind = "music"  -> max_attempts_music

\* position of poller i after an iteration: left the loop by break, ran out
\* of iterations, or sleeps before the next one
Advance(i, broke, terminal_signal) ==
    LET p == pollers[i]
    IN [pollers EXCEPT ![i].attempt = p.attempt + 1,
                       ![i].signalled = @ \/ terminal_signal,
                       ![i].pc = IF broke THEN "broke"
                                 ELSE IF p.attempt + 1 = max_attempts(p.kind)
                                      THEN "exhausted"
                                 ELSE "running"]

\* what last holds about an operation: its name, the provider its request
\* belongs to, the fields of its result, and the providers it sent a request
\* to over the network, in order
Call(op, provider, success, task_id, message, model, calls) ==
    [op |-> op, provider |-> provider, success |-> success, task_id |-> task_id,
     message |-> message, model |-> model, calls |-> calls]

NoCall == Call("none", None, FALSE, None, "", None, << >>)

Init ==
    /\ creds \in CredConfigs
    /\ task_store = << >>
    /\ pollers = << >>
    /\ submitted = 0
    /\ last = NoCall

(***************************************************************************)
(* main.py generate_video with FactoryEngine.generate_video                *)
(***************************************************************************)
\* answer of the provider to a submit: rejected with an HTTP status (401 and
\* 402 are the authentication and quota classes, 500 the server class), no
\* answer at all (timeout or connection error), accepted without a task id in
\* the body, accepted with a fresh task id
SubmitFailures == {"http_401", "http_402", "http_500", "timeout"}
SubmitAnswers == SubmitFailures \cup {"no_task_id", "ok"}

\* FactoryEngine.generate_video sending a Kling request to GoAPI when the
\* official Kling adapter has no credentials
FactoryGenerateVideo_goapi_fallback(model, ans) ==
    LET provider == IF model = "kling" /\ "kling" \in creds THEN "kling" ELSE "goapi"
    IN IF provider \notin creds THEN ErrorResponse("not configured")
       ELSE IF ans \in SubmitFailures THEN ErrorResponse("provider error")
       ELSE VideoResponse(TRUE, IF ans = "ok" THEN TaskId(submitted + 1) ELSE None,
                          None, "processing", "started", 10)

FactoryGenerateVideo(model, ans) ==
    LET provider == IF model = "kling" THEN "kling" ELSE "goapi"
    IN IF provider \notin creds THEN ErrorResponse("not configured")
       ELSE IF ans \in SubmitFailures THEN ErrorResponse("provider error")
       ELSE VideoResponse(TRUE, IF ans = "ok" THEN TaskId(submitted + 1) ELSE None,
                          None, "processing", "started", 10)

generate_video(project_id, model, has_image, ans) ==
    LET video_model == IF has_image THEN "kling" ELSE model
        result == FactoryGenerateVideo(video_model, ans)
    IN IF ~result.success \/ result.task_id = None
       THEN UNCHANGED tvars
       ELSE /\ task_store' = Put(task_store, project_id,
                   Entry(result.task_id, video_model, "processing", 10, None))
            /\ pollers' = Append(pollers,
                   Poller("video", project_id, result.task_id, video_model))
            /\ submitted' = submitted + 1
            /\ UNCHANGED creds

(***************************************************************************)
(* main.py poll_video_status: one iteration of the loop                    *)
(***************************************************************************)
\* poll_video_status giving up control after its first assignment: the step
\* writes the status and leaves progress and url as they were
poll_video_status_status_only(i, kans, gans) ==
    LET p == pollers[i]
        result == CheckVideoStatus(p.task_id, p.model, kans, gans)
        done == result.status = "completed" /\ result.video_url # None
        failed == ~done /\ result.status = "failed"
    IN /\ p.kind = "video"
       /\ p.pc = "running"
       /\ IF p.key \in DOMAIN task_store
          THEN /\ task_store' = [task_store EXCEPT ![p.key].status = result.status]
               /\ pollers' = Advance(i, done \/ failed, result.status \in Terminal)
          ELSE /\ UNCHANGED task_store
               /\ pollers' = Advance(i, FALSE, result.status \in Terminal)
       /\ UNCHANGED <<creds, submitted>>

poll_video_status(i, kans, gans) ==
    LET p == pollers[i]
        result == CheckVideoStatus(p.task_id, p.model, kans, gans)
        done == result.status = "completed" /\ result.video_url # None
        failed == ~done /\ result.status = "failed"
    IN /\ p.kind = "video"
       /\ p.pc = "running"
       /\ IF p.key \in DOMAIN task_store
          THEN /\ task_store' = [task_store EXCEPT ![p.key] =
                     [@ EXCEPT !.status = result.status,
                               !.progress = result.progress,
                               !.url = result.video_url,
                               !.error_message =
                                   IF failed
                                   THEN (IF result.message # "" THEN result.message
                                         ELSE "video generation failed")
                                   ELSE @]]
               /\ pollers' = Advance(i, done \/ failed, result.status \in Terminal)
          ELSE /\ UNCHANGED task_store
               /\ pollers' = Advance(i, FALSE, result.status \in Terminal)
       /\ UNCHANGED <<creds, submitted>>

(***************************************************************************)
(* main.py generate_image with FactoryEngine.generate_image, and           *)
(* poll_image_status                                                       *)
(***************************************************************************)
FactoryGenerateImage(ans) ==
    IF "goapi" \notin creds
    THEN ImageResponse(FALSE, None, None, "error", "not configured")
    ELSE IF ans \in SubmitFailures
    THEN ImageResponse(FALSE, None, None, "error", "provider error")
    ELSE ImageResponse(TRUE, IF ans = "ok" THEN TaskId(submitted + 1) ELSE None,
                       None, "processing", "started")

generate_image(project_id, ans) ==
    LET result == FactoryGenerateImage(ans)
        store_key == "image_" \o project_id
    IN IF ~result.success
       THEN UNCHANGED tvars
       ELSE /\ task_store' = Put(task_store, store_key,
                   Entry(result.task_id, "flux", "processing", 10, None))
            /\ pollers' = Append(pollers,
                   Poller("image", store_key, result.task_id, "flux"))
            /\ submitted' = submitted + 1
            /\ UNCHANGED creds

poll_image_status(i, ans) ==
    LET p == pollers[i]
        result == GoAPICheckImageStatus(p.task_id, ans)
        done == result.status = "completed" /\ result.image_url # None
        failed == ~done /\ result.status = "failed"
    IN /\ p.kind = "image"
       /\ p.pc = "running"
       /\ IF p.key \in DOMAIN task_store
          THEN /\ task_store' = [task_store EXCEPT ![p.key] =
                     [@ EXCEPT !.status = result.status,
                               !.url = result.image_url,
                               !.progress = IF done THEN 100
                                            ELSE IF failed THEN 0
                                            ELSE Min(90, 10 + p.attempt * 3),
                               !.error_message =
                                   IF failed THEN "failed: " \o result.message
                                   ELSE IF done THEN None
                                   ELSE @]]
               /\ pollers' = Advance(i, done \/ failed, result.status \in Terminal)
          ELSE /\ UNCHANGED task_store
               /\ pollers' = Advance(i, FALSE, result.status \in Terminal)
       /\ UNCHANGED <<creds, submitted>>

(***************************************************************************)
(* main.py generate_music with FactoryEngine.generate_music and            *)
(* GoAPIClient.generate_music (preferred suno, fallback udio), and         *)
(* poll_music_status                                                       *)
(***************************************************************************)
MusicResponse(success, task_id, message, model) ==
    [success |-> success, task_id |-> task_id, message |-> message, model |-> model]

GenerateMusicWithModel(ans, audio_model) ==
    IF ans = "timeout"
    THEN MusicResponse(FALSE, None, audio_model \o " connection failed", audio_model)
    ELSE IF ans \in SubmitFailures
    THEN MusicResponse(FALSE, None, audio_model \o " unavailable (" \o ans \o ")",
                       audio_model)
    ELSE MusicResponse(TRUE, IF ans = "ok" THEN TaskId(submitted + 1) ELSE None,
                       audio_model \o " started", audio_model)

\* GoAPIClient.generate_music returning the fallback result as it came
FactoryGenerateMusic_untagged(ans, fallback_ans) ==
    LET result == GenerateMusicWithModel(ans, "suno")
        fallback_result == GenerateMusicWithModel(fallback_ans, "udio")
    IN IF "goapi" \notin creds
       THEN MusicResponse(FALSE, None, "not configured", "suno")
       ELSE IF result.success THEN result
       ELSE IF fallback_result.success THEN fallback_result
       ELSE MusicResponse(FALSE, None,
                "both failed. " \o result.message \o " / " \o fallback_result.message,
                "suno")

FactoryGenerateMusic(ans, fallback_ans) ==
    LET result == GenerateMusicWithModel(ans, "suno")
        fallback_result == GenerateMusicWithModel(fallback_ans, "udio")
    IN IF "goapi" \notin creds
       THEN MusicResponse(FALSE, None, "not configured", "suno")
       ELSE IF result.success THEN result
       ELSE IF fallback_result.success
       THEN [fallback_result EXCEPT !.message = "[Fallback] " \o @]
       ELSE MusicResponse(FALSE, None,
                "both failed. " \o result.message \o " / " \o fallback_result.message,
                "suno")

\* generate_music writing the registry entry before it looks at the result
generate_music_registers_first(project_id, ans, fallback_ans) ==
    LET result == FactoryGenerateMusic(ans, fallback_ans)
        store_key == "music_" \o project_id
    IN /\ task_store' = Put(task_store, store_key,
               Entry(result.task_id, result.model, "processing", 10, None))
       /\ IF ~result.success
          THEN UNCHANGED <<creds, pollers, submitted>>
          ELSE /\ pollers' = Append(pollers,
                      Poller("music", store_key, result.task_id, result.model))
               /\ submitted' = submitted + 1
               /\ UNCHANGED creds

generate_music(project_id, ans, fallback_ans) ==
    LET result == FactoryGenerateMusic(ans, fallback_ans)
        store_key == "music_" \o project_id
    IN IF ~result.success
       THEN UNCHANGED tvars
       ELSE /\ task_store' = Put(task_store, store_key,
                   Entry(result.task_id, result.model, "processing", 10, None))
            /\ pollers' = Append(pollers,
                   Poller("music", store_key, result.task_id, result.model))
            /\ submitted' = submitted + 1
            /\ UNCHANGED creds

poll_music_status(i, ans) ==
    LET p == pollers[i]
        done == ans.status \in {"completed", "succeed"}
        failed == ans.status = "failed"
    IN /\ p.kind = "music"
       /\ p.pc = "running"
       /\ IF ans.ok /\ p.key \in DOMAIN task_store
          THEN /\ task_store' = [task_store EXCEPT ![p.key] =
                     [@ EXCEPT !.status = ans.status,
                               !.url = IF done
                                       THEN (IF ans.has_url THEN Url ELSE None)
                                       ELSE @,
                               !.progress = IF done THEN 100
                                            ELSE IF failed THEN 0
                                            ELSE Min(90, 10 + p.attempt * 3)]]
               /\ pollers' = Advance(i, done \/ failed, done \/ failed)
          ELSE /\ UNCHANGED task_store
               /\ pollers' = Advance(i, FALSE, ans.ok /\ (done \/ failed))
       /\ UNCHANGED <<creds, submitted>>

(***************************************************************************)
(* main.py generate_avatar with HeyGenClient.create_avatar_video, and      *)
(* poll_avatar_status                                                      *)
(***************************************************************************)
CreateAvatarVideo(ans) ==
    IF "heygen" \notin creds THEN ErrorResponse("not configured")
    ELSE IF ans \in SubmitFailures THEN ErrorResponse("provider error")
    ELSE VideoResponse(TRUE, IF ans = "ok" THEN TaskId(submitted + 1) ELSE None,
                       None, "processing", "started", 10)

\* generate_avatar adding its background task twice
generate_avatar_two_pollers(project_id, ans) ==
    LET result == CreateAvatarVideo(ans)
        poller == Poller("avatar", project_id, result.task_id, "heygen")
    IN IF ~result.success
       THEN UNCHANGED tvars
       ELSE /\ task_store' = Put(task_store, project_id,
                   Entry(result.task_id, "heygen", "processing", 10, None))
            /\ pollers' = Append(Append(pollers, poller), poller)
            /\ submitted' = submitted + 1
            /\ UNCHANGED creds

generate_avatar(project_id, ans) ==
    LET result == CreateAvatarVideo(ans)
    IN IF ~result.success
       THEN UNCHANGED tvars
       ELSE /\ task_store' = Put(task_store, project_id,
                   Entry(result.task_id, "heygen", "processing", 10, None))
            /\ pollers' = Append(pollers,
                   Poller("avatar", project_id, result.task_id, "heygen"))
            /\ submitted' = submitted + 1
            /\ UNCHANGED creds

\* poll_avatar_status leaving its loop on the adapter's error response too
poll_avatar_status_stops_on_error(i, ans) ==
    LET p == pollers[i]
        result == HeyGenCheckStatus(p.task_id, ans)
    IN /\ p.kind = "avatar"
       /\ p.pc = "running"
       /\ IF p.key \in DOMAIN task_store
          THEN /\ task_store' = [task_store EXCEPT ![p.key] =
                     [@ EXCEPT !.status = result.status,
                               !.progress = result.progress,
                               !.url = result.video_url]]
               /\ pollers' = Advance(i, result.status \in {"completed", "failed", "error"},
                                      result.status \in Terminal)
          ELSE /\ UNCHANGED task_store
               /\ pollers' = Advance(i, FALSE, result.status \in Terminal)
       /\ UNCHANGED <<creds, submitted>>

poll_avatar_status(i, ans) ==
    LET p == pollers[i]
        result == HeyGenCheckStatus(p.task_id, ans)
    IN /\ p.kind = "avatar"
       /\ p.pc = "running"
       /\ IF p.key \in DOMAIN task_store
          THEN /\ task_store' = [task_store EXCEPT ![p.key] =
                     [@ EXCEPT !.status = result.status,
                               !.progress = result.progress,
                               !.url = result.video_url]]
               /\ pollers' = Advance(i, result.status \in {"completed", "failed"},
                                      result.status \in Terminal)
          ELSE /\ UNCHANGED task_store
               /\ pollers' = Advance(i, FALSE, result.status \in Terminal)
       /\ UNCHANGED <<creds, submitted>>

(***************************************************************************)
(* main.py auto_edit_video with CreatomateClient.auto_edit, and            *)
(* poll_edit_status                                                        *)
(***************************************************************************)
\* answers of Creatomate to the render request
RenderAnswers ==
    [ok : {FALSE}, has_id : {FALSE}, status : {"planned"}, has_url : {FALSE}]
    \cup [ok : {TRUE}, has_id : BOOLEAN, status : {"planned"}, has_url : BOOLEAN]
    \cup [ok : {TRUE}, has_id : {TRUE}, status : {"completed"}, has_url : {TRUE}]

AutoEdit(project_id, ans) ==
    IF "creatomate" \notin creds
    THEN VideoResponse(TRUE, "dummy_edit_" \o project_id, SourceUrl, "completed",
                       "edited (creatomate not connected)", 100)
    ELSE IF ~ans.ok THEN ErrorResponse("provider error")
    ELSE VideoResponse(TRUE, IF ans.has_id THEN TaskId(submitted + 1) ELSE None,
                       IF ans.has_url THEN Url ELSE None,
                       IF ans.status = "completed" THEN "completed" ELSE "processing",
                       "editing",
                       IF ans.status = "completed" THEN 100 ELSE 30)

auto_edit_video(project_id, ans) ==
    LET result == AutoEdit(project_id, ans)
        store_key == "edit_" \o project_id
    IN IF ~result.success
       THEN UNCHANGED tvars
       ELSE /\ task_store' = Put(task_store, store_key,
                   Entry(result.task_id, "creatomate", result.status,
                         result.progress, result.video_url))
            /\ pollers' = IF result.status # "completed"
                          THEN Append(pollers,
                                   Poller("edit", store_key, result.task_id, "creatomate"))
                          ELSE pollers
            /\ submitted' = submitted + 1
            /\ UNCHANGED creds

poll_edit_status(i, ans) ==
    LET p == pollers[i]
        result == CreatomateCheckRenderStatus(p.task_id, ans)
    IN /\ p.kind = "edit"
       /\ p.pc = "running"
       /\ IF p.key \in DOMAIN task_store
          THEN /\ task_store' = [task_store EXCEPT ![p.key] =
                     [@ EXCEPT !.status = result.status,
                               !.progress = result.progress,
                               !.url = result.video_url]]
               /\ pollers' = Advance(i, result.status \in {"completed", "failed"},
                                      result.status \in Terminal)
          ELSE /\ UNCHANGED task_store
               /\ pollers' = Advance(i, FALSE, result.status \in Terminal)
       /\ UNCHANGED <<creds, submitted>>

VideoRequest ==
    \E project_id \in ProjectIds, ans \in SubmitAnswers,
       model \in VideoModels, has_image \in BOOLEAN :
        generate_video(project_id, model, has_image, ans)

ImageRequest ==
    \E project_id \in ProjectIds, ans \in SubmitAnswers :
        generate_image(project_id, ans)

MusicRequest ==
    \E project_id \in ProjectIds, ans \in SubmitAnswers,
       fallback_ans \in SubmitAnswers :
        generate_music(project_id, ans, fallback_ans)

AvatarRequest ==
    \E project_id \in ProjectIds, ans \in SubmitAnswers :
        generate_avatar(project_id, ans)

EditRequest ==
    \E project_id \in ProjectIds, ans \in RenderAnswers :
        auto_edit_video(project_id, ans)

PollVideo(i) ==
    \E ans \in VideoAnswers(pollers[i].model) :
        poll_video_status(i, ans[1], ans[2])

PollImage(i) == \E ans \in TaskAnswers : poll_image_status(i, ans)

PollMusic(i) == \E ans \in TaskAnswers : poll_music_status(i, ans)

PollAvatar(i) == \E ans \in HeyGenAnswers : poll_avatar_status(i, ans)

PollEdit(i) == \E ans \in CreatomateAnswers : poll_edit_status(i, ans)

Next ==
    \/ submitted < MaxSubmissions /\ VideoRequest /\ UNCHANGED last
    \/ submitted < MaxSubmissions /\ ImageRequest /\ UNCHANGED last
    \/ submitted < MaxSubmissions /\ MusicRequest /\ UNCHANGED last
    \/ submitted < MaxSubmissions /\ AvatarRequest /\ UNCHANGED last
    \/ submitted < MaxSubmissions /\ EditRequest /\ UNCHANGED last
    \/ \E i \in DOMAIN pollers : pollers[i].attempt < MaxPolls /\ PollVideo(i) /\ UNCHANGED last
    \/ \E i \in DOMAIN pollers : pollers[i].attempt < MaxPolls /\ PollImage(i) /\ UNCHANGED last
    \/ \E i \in DOMAIN pollers : pollers[i].attempt < MaxPolls /\ PollMusic(i) /\ UNCHANGED last
    \/ \E i \in DOMAIN pollers : pollers[i].attempt < MaxPolls /\ PollAvatar(i) /\ UNCHANGED last
    \/ \E i \in DOMAIN pollers : pollers[i].attempt < MaxPolls /\ PollEdit(i) /\ UNCHANGED last

Spec == Init /\ [][Next]_vars

\* One job alone, followed through its whole polling budget.
NextBudget ==
    \/ submitted = 0 /\ VideoRequest /\ UNCHANGED last
    \/ submitted = 0 /\ ImageRequest /\ UNCHANGED last
    \/ submitted = 0 /\ MusicRequest /\ UNCHANGED last
    \/ submitted = 0 /\ AvatarRequest /\ UNCHANGED last
    \/ submitted = 0 /\ EditRequest /\ UNCHANGED last
    \/ \E i \in DOMAIN pollers : PollVideo(i) /\ UNCHANGED last
    \/ \E i \in DOMAIN pollers : PollImage(i) /\ UNCHANGED last
    \/ \E i \in DOMAIN pollers : PollMusic(i) /\ UNCHANGED last
    \/ \E i \in DOMAIN pollers : PollAvatar(i) /\ UNCHANGED last
    \/ \E i \in DOMAIN pollers : PollEdit(i) /\ UNCHANGED last

SpecBudget == Init /\ [][NextBudget]_vars

(***************************************************************************)
(* main.py generate_music: what the handler answers to its HTTP caller     *)
(* for a dispatch result - 503 with one fixed detail text on failure, the  *)
(* task id with one fixed message on success.                              *)
(***************************************************************************)
MusicHttpResponse(result) ==
    IF ~result.success
    THEN [status_code |-> 503, task_id |-> None,
          detail |-> "goapi music server under maintenance, try again later"]
    ELSE [status_code |-> 200, task_id |-> result.task_id,
          detail |-> "suno music generation started"]

(***************************************************************************)
(* main.py status checks: get_video_progress reads the entry of a project  *)
(* id; get_factory_status looks its argument up as a registry key and then *)
(* as a provider task id, and normalises the provider's success words.     *)
(***************************************************************************)
NotFound ==
    [found |-> FALSE, task_id |-> None, status |-> None, progress |-> 0,
     url |-> None, model |-> None]

StatusResponse(task_id, status, progress, url, model) ==
    [found |-> TRUE, task_id |-> task_id, status |-> status,
     progress |-> progress, url |-> url, model |-> model]

get_video_progress(project_id) ==
    IF project_id \notin DOMAIN task_store THEN NotFound
    ELSE LET task_data == task_store[project_id]
         IN StatusResponse(task_data.task_id, task_data.status,
                           task_data.progress, task_data.url, task_data.model)

get_factory_status(task_id) ==
    LET by_task_id == {k \in DOMAIN task_store : task_store[k].task_id = task_id}
    IN IF task_id \notin DOMAIN task_store /\ by_task_id = {} THEN NotFound
       ELSE LET task_data == IF task_id \in DOMAIN task_store
                             THEN task_store[task_id]
                             ELSE task_store[CHOOSE k \in by_task_id : TRUE]
                normalised == task_data.status \in {"succeed", "success"}
            IN StatusResponse(task_data.task_id,
                              IF normalised THEN "completed" ELSE task_data.status,
                              IF normalised THEN 100 ELSE task_data.progress,
                              task_data.url, task_data.model)

(***************************************************************************)
(* Provider calls.  The requests an operation sends over the network, in   *)
(* order: the adapter that sent each one ("suno" and "udio" are the two    *)
(* GoAPI music models of GoAPIClient._generate_music_with_model) and the   *)
(* answer it got.  An adapter without credentials returns its error        *)
(* response before any request is built.                                   *)
(***************************************************************************)
Sent(to, ans) == [to |-> to, ans |-> ans]

VideoProvider(model) == IF model = "kling" THEN "kling" ELSE "goapi"

\* FactoryEngine.generate_video going on to GoAPI when the official Kling
\* adapter is unavailable or has failed, as its docstring says
VideoSubmitCalls_goapi_fallback(model, ans) ==
    LET goapi_calls == IF "goapi" \in creds THEN <<Sent("goapi", ans)>> ELSE << >>
    IN IF model # "kling" THEN goapi_calls
       ELSE IF "kling" \notin creds THEN goapi_calls
       ELSE IF ans \in SubmitFailures THEN <<Sent("kling", ans)>> \o goapi_calls
       ELSE <<Sent("kling", ans)>>

VideoSubmitCalls(model, ans) ==
    IF VideoProvider(model) \in creds
    THEN <<Sent(VideoProvider(model), ans)>> ELSE << >>

ImageSubmitCalls(ans) ==
    IF "goapi" \in creds THEN <<Sent("goapi", ans)>> ELSE << >>

\* GoAPIClient.generate_music going back to the preferred model once more
\* when the fallback model has failed too
MusicSubmitCalls_retries(ans, fallback_ans) ==
    IF "goapi" \notin creds THEN << >>
    ELSE IF GenerateMusicWithModel(ans, "suno").success THEN <<Sent("suno", ans)>>
    ELSE IF GenerateMusicWithModel(fallback_ans, "udio").success
    THEN <<Sent("suno", ans), Sent("udio", fallback_ans)>>
    ELSE <<Sent("suno", ans), Sent("udio", fallback_ans), Sent("suno", ans)>>

MusicSubmitCalls(ans, fallback_ans) ==
    IF "goapi" \notin creds THEN << >>
    ELSE IF GenerateMusicWithModel(ans, "suno").success THEN <<Sent("suno", ans)>>
    ELSE <<Sent("suno", ans), Sent("udio", fallback_ans)>>

AvatarSubmitCalls(ans) ==
    IF "heygen" \in creds THEN <<Sent("heygen", ans)>> ELSE << >>

EditSubmitCalls(ans) ==
    IF "creatomate" \in creds
    THEN <<Sent("creatomate", IF ans.ok THEN "ok" ELSE "http_500")>> ELSE << >>

\* answer of a status query as the call log shows it
Answered(ok) == IF ok THEN "ok" ELSE "failed"

CheckVideoStatusCalls(task_id, model, kans, gans) ==
    LET goapi_calls == IF "goapi" \in creds
                       THEN <<Sent("goapi", Answered(gans.ok))>> ELSE << >>
    IN IF model = "kling" /\ "kling" \in creds
       THEN (IF KlingCheckStatus(task_id, kans).success
             THEN <<Sent("kling", Answered(kans.ok))>>
             ELSE <<Sent("kling", Answered(kans.ok))>> \o goapi_calls)
       ELSE goapi_calls

CheckStatusCalls(provider, ok) ==
    IF provider \in creds THEN <<Sent(provider, Answered(ok))>> ELSE << >>

(***************************************************************************)
(* The operations again, each one recording in last what it returned and   *)
(* which providers it called.                                              *)
(***************************************************************************)
\* main.py model_map of generate_video and of generate_image: the model id
\* named by the request is looked up with a default, Kling for videos ("auto"
\* is an entry for Kling) and Flux for images
UnknownModel == "unknown_model"
RequestedVideoModels == VideoModels \cup {"auto", UnknownModel}
RequestedImageModels == {"flux", UnknownModel}

video_model_map(selected_model) ==
    IF selected_model \in VideoModels THEN selected_model ELSE "kling"

image_model_map(model) ==
    IF model \in {"flux", "midjourney", "dalle"} THEN model ELSE "flux"

\* what last holds about a generate request: as Call, and the model id the
\* request named
RequestCall(op, requested, provider, result, model, calls) ==
    [op |-> op, provider |-> provider, success |-> result.success,
     task_id |-> result.task_id, message |-> result.message, model |-> model,
     calls |-> calls, requested |-> requested]

\* factory_engine.py STYLE_PRESETS: the catalog, each preset with its prompt
\* suffix and colour grade (the display name is left out)
Preset(prompt_suffix, color_grade) ==
    [prompt_suffix |-> prompt_suffix, color_grade |-> color_grade]

STYLE_PRESETS ==
    [id \in {"warm_film", "cool_modern", "golden_hour", "cinematic_teal_orange",
             "noir", "vibrant"} |->
        CASE id = "warm_film" ->
               Preset("shot on iPhone 15 Pro, warm film look, natural lighting, cinematic grain, 4K quality", "warm")
          [] id = "cool_modern" ->
               Preset("clean modern aesthetic, cool blue tones, sharp details, professional lighting, 4K quality", "cool")
          [] id = "golden_hour" ->
               Preset("golden hour lighting, warm sunset colors, soft shadows, dreamy atmosphere, cinematic, 4K quality", "golden")
          [] id = "cinematic_teal_orange" ->
               Preset("cinematic teal and orange color grade, dramatic lighting, film grain, anamorphic lens flare, 4K HDR", "teal_orange")
          [] id = "noir" ->
               Preset("high contrast black and white, dramatic shadows, film noir style, moody atmosphere, 4K quality", "noir")
          [] OTHER ->
               Preset("vibrant saturated colors, punchy contrast, energetic mood, professional color grade, 4K quality", "vibrant")]

\* style preset ids a request can carry: ids of the catalog, the empty id and
\* an id the catalog does not hold
RequestedStylePresets == {"warm_film", "noir", "", "unknown_style"}

Prompt == "a car chase"

\* STYLE_PRESETS.get(request.style_preset, STYLE_PRESETS["cool_modern"])
KlingStylePreset_other_default(style_preset) ==
    IF style_preset \in DOMAIN STYLE_PRESETS THEN STYLE_PRESETS[style_preset]
    ELSE STYLE_PRESETS["cool_modern"]

\* KlingOfficialClient.generate_video:
\* STYLE_PRESETS.get(request.style_preset, STYLE_PRESETS["warm_film"])
KlingStylePreset(style_preset) ==
    IF style_preset \in DOMAIN STYLE_PRESETS THEN STYLE_PRESETS[style_preset]
    ELSE STYLE_PRESETS["warm_film"]

\* GoAPIClient._build_video_request: the same lookup
GoAPIStylePreset(style_preset) ==
    IF style_preset \in DOMAIN STYLE_PRESETS THEN STYLE_PRESETS[style_preset]
    ELSE STYLE_PRESETS["warm_film"]

\* the preset the adapter of the model resolves for the request
StylePreset(model, style_preset) ==
    IF VideoProvider(model) = "kling" THEN KlingStylePreset(style_preset)
    ELSE GoAPIStylePreset(style_preset)

\* f"{request.prompt}, {preset['prompt_suffix']}"
EnhancedPrompt(prompt, preset) == prompt \o ", " \o preset.prompt_suffix

\* the body KlingOfficialClient.generate_video builds holds the image
\* reference exactly when the request has one
KlingBodyHasImage(has_image) == has_image

\* the body GoAPIClient._build_video_request builds holds the image
\* reference for the models that take one, when the request has one
GoAPIBodyHasImage(model, has_image) ==
    model \notin {"veo", "sora", "midjourney"} /\ has_image

BodyHasImage(model, has_image) ==
    IF VideoProvider(model) = "kling" THEN KlingBodyHasImage(has_image)
    ELSE GoAPIBodyHasImage(model, has_image)

\* what last holds about a video request: as RequestCall, and the style
\* preset id of the request, whether it carries a source image, the answer
\* of the provider, the preset its adapter resolved, the prompt in the body
\* it sent and whether that body holds the image reference (None when the
\* adapter sent nothing)
VideoRequestCall(requested, style_preset, has_image, ans, result, model, calls) ==
    LET built == calls # << >>
        preset == StylePreset(model, style_preset)
    IN [op |-> "generate_video", provider |-> VideoProvider(model),
        success |-> result.success, task_id |-> result.task_id,
        message |-> result.message, model |-> model, calls |-> calls,
        requested |-> requested, style_preset |-> style_preset,
        has_image |-> has_image, answer |-> ans,
        preset |-> IF built THEN preset ELSE None,
        prompt |-> IF built THEN EnhancedPrompt(Prompt, preset) ELSE None,
        body_has_image |-> built /\ BodyHasImage(model, has_image)]

CallVideoRequest ==
    \E project_id \in ProjectIds, ans \in SubmitAnswers,
       requested \in RequestedVideoModels, has_image \in BOOLEAN,
       style_preset \in RequestedStylePresets :
        LET model == video_model_map(requested)
            video_model == IF has_image THEN "kling" ELSE model
            result == FactoryGenerateVideo(video_model, ans)
        IN /\ generate_video(project_id, model, has_image, ans)
           /\ last' = VideoRequestCall(requested, style_preset, has_image, ans,
                                       result, video_model,
                                       VideoSubmitCalls(video_model, ans))

CallImageRequest ==
    \E project_id \in ProjectIds, ans \in SubmitAnswers,
       requested \in RequestedImageModels :
        LET image_model == image_model_map(requested)
            result == FactoryGenerateImage(ans)
        IN /\ generate_image(project_id, ans)
           /\ last' = RequestCall("generate_image", requested, "goapi", result,
                                  image_model, ImageSubmitCalls(ans))

CallMusicRequest ==
    \E project_id \in ProjectIds, ans \in SubmitAnswers,
       fallback_ans \in SubmitAnswers :
        LET result == FactoryGenerateMusic(ans, fallback_ans)
        IN /\ generate_music(project_id, ans, fallback_ans)
           /\ last' = Call("generate_music", "goapi", result.success,
                           result.task_id, result.message, result.model,
                           MusicSubmitCalls(ans, fallback_ans))

CallAvatarRequest ==
    \E project_id \in ProjectIds, ans \in SubmitAnswers :
        LET result == CreateAvatarVideo(ans)
        IN /\ generate_avatar(project_id, ans)
           /\ last' = Call("generate_avatar", "heygen", result.success,
                           result.task_id, result.message, "heygen",
                           AvatarSubmitCalls(ans))

CallEditRequest ==
    \E project_id \in ProjectIds, ans \in RenderAnswers :
        LET result == AutoEdit(project_id, ans)
        IN /\ auto_edit_video(project_id, ans)
           /\ last' = Call("auto_edit_video", "creatomate", result.success,
                           result.task_id, result.message, "creatomate",
                           EditSubmitCalls(ans))

\* For a poll, success says that the status query was answered: the adapters
\* return status 'error' exactly when it was not.
CallPollVideo(i) ==
    \E ans \in VideoAnswers(pollers[i].model) :
        LET p == pollers[i]
            result == CheckVideoStatus(p.task_id, p.model, ans[1], ans[2])
        IN /\ poll_video_status(i, ans[1], ans[2])
           /\ last' = Call("poll_video_status", VideoProvider(p.model),
                           result.status # "error", p.task_id, result.message,
                           p.model,
                           CheckVideoStatusCalls(p.task_id, p.model, ans[1], ans[2]))

CallPollImage(i) ==
    \E ans \in TaskAnswers :
        LET p == pollers[i]
            result == GoAPICheckImageStatus(p.task_id, ans)
        IN /\ poll_image_status(i, ans)
           /\ last' = Call("poll_image_status", "goapi", result.status # "error",
                           p.task_id, result.message, p.model,
                           CheckStatusCalls("goapi", ans.ok))

CallPollMusic(i) ==
    \E ans \in TaskAnswers :
        LET p == pollers[i]
        IN /\ poll_music_status(i, ans)
           /\ last' = Call("poll_music_status", "goapi", ans.ok, p.task_id, "",
                           p.model, <<Sent("goapi", Answered(ans.ok))>>)

CallPollAvatar(i) ==
    \E ans \in HeyGenAnswers :
        LET p == pollers[i]
            result == HeyGenCheckStatus(p.task_id, ans)
        IN /\ poll_avatar_status(i, ans)
           /\ last' = Call("poll_avatar_status", "heygen", result.status # "error",
                           p.task_id, result.message, p.model,
                           CheckStatusCalls("heygen", ans.ok))

CallPollEdit(i) ==
    \E ans \in CreatomateAnswers :
        LET p == pollers[i]
            result == CreatomateCheckRenderStatus(p.task_id, ans)
        IN /\ poll_edit_status(i, ans)
           /\ last' = Call("poll_edit_status", "creatomate",
                           result.status # "error", p.task_id, result.message,
                           p.model, CheckStatusCalls("creatomate", ans.ok))

(***************************************************************************)
(* CreatomateClient.concat_videos and merge_videos_with_music: compose     *)
(* requests over a list of video urls, of which only the length matters    *)
(* here.  Neither touches the registry.                                    *)
(***************************************************************************)
ComposeResponse(ans) ==
    IF ~ans.ok THEN ErrorResponse("provider error")
    ELSE VideoResponse(TRUE, IF ans.has_id THEN TaskId(submitted + 1) ELSE None,
                       IF ans.has_url THEN Url ELSE None,
                       IF ans.status = "completed" THEN "completed" ELSE "processing",
                       "composing",
                       IF ans.status = "completed" THEN 100 ELSE 30)

ConcatVideos(video_urls, ans) ==
    IF "creatomate" \notin creds THEN ErrorResponse("not configured")
    ELSE IF video_urls < 2 THEN ErrorResponse("at least 2 videos required")
    ELSE ComposeResponse(ans)

ConcatVideosCalls(video_urls, ans) ==
    IF "creatomate" \notin creds \/ video_urls < 2 THEN << >>
    ELSE <<Sent("creatomate", IF ans.ok THEN "ok" ELSE "http_500")>>

MergeVideosWithMusic(video_urls, ans) ==
    IF "creatomate" \notin creds THEN ErrorResponse("not configured")
    ELSE ComposeResponse(ans)

MergeVideosWithMusicCalls(video_urls, ans) ==
    IF "creatomate" \notin creds THEN << >>
    ELSE <<Sent("creatomate", IF ans.ok THEN "ok" ELSE "http_500")>>

\* what last holds about a compose operation: as Call, and the number of
\* video urls of the request
ComposeCall(op, video_urls, result, calls) ==
    [op |-> op, provider |-> "creatomate", success |-> result.success,
     task_id |-> result.task_id, message |-> result.message,
     model |-> "creatomate", calls |-> calls, video_urls |-> video_urls]

CallConcatVideos ==
    \E video_urls \in 0..MaxSources, ans \in RenderAnswers :
        /\ last' = ComposeCall("concat_videos", video_urls,
                               ConcatVideos(video_urls, ans),
                               ConcatVideosCalls(video_urls, ans))
        /\ UNCHANGED tvars

CallMergeVideosWithMusic ==
    \E video_urls \in 0..MaxSources, ans \in RenderAnswers :
        /\ last' = ComposeCall("merge_videos_with_music", video_urls,
                               MergeVideosWithMusic(video_urls, ans),
                               MergeVideosWithMusicCalls(video_urls, ans))
        /\ UNCHANGED tvars

\* One request from an empty registry under every combination of
\* credentials, and the polls of the job it started.
InitCalls ==
    /\ creds \in SUBSET AllProviders
    /\ task_store = << >>
    /\ pollers = << >>
    /\ submitted = 0
    /\ last = NoCall

\* FactoryEngine.generate_image called with an ImageRequest: request is the
\* caller's object when the call is made, request_after the same object when
\* the call has returned.  The dispatcher does not touch the registry.
ImageModels == {"gemini", "flux", "midjourney", "dalle"}

ImageRequestObject(model) == [model |-> model]

\* the caller's request object after FactoryEngine.generate_image
RoutedImageRequest(request) ==
    IF request.model = "gemini" THEN [request EXCEPT !.model = "flux"]
    ELSE request

DispatchCall(op, request, request_after, result, calls) ==
    [op |-> op, provider |-> "goapi", success |-> result.success,
     task_id |-> result.task_id, message |-> result.message,
     model |-> request_after.model, calls |-> calls,
     request |-> request, request_after |-> request_after]

CallFactoryGenerateImage ==
    \E model \in ImageModels, ans \in SubmitAnswers :
        LET request == ImageRequestObject(model)
        IN /\ last' = DispatchCall("factory_generate_image", request,
                                   RoutedImageRequest(request),
                                   FactoryGenerateImage(ans), ImageSubmitCalls(ans))
           /\ UNCHANGED tvars

NextCalls ==
    \/ submitted = 0 /\ CallVideoRequest
    \/ submitted = 0 /\ CallImageRequest
    \/ submitted = 0 /\ CallMusicRequest
    \/ submitted = 0 /\ CallAvatarRequest
    \/ submitted = 0 /\ CallEditRequest
    \/ submitted = 0 /\ CallConcatVideos
    \/ submitted = 0 /\ CallMergeVideosWithMusic
    \/ submitted = 0 /\ CallFactoryGenerateImage
    \/ \E i \in DOMAIN pollers : pollers[i].attempt < MaxPolls /\ CallPollVideo(i)
    \/ \E i \in DOMAIN pollers : pollers[i].attempt < MaxPolls /\ CallPollImage(i)
    \/ \E i \in DOMAIN pollers : pollers[i].attempt < MaxPolls /\ CallPollMusic(i)
    \/ \E i \in DOMAIN pollers : pollers[i].attempt < MaxPolls /\ CallPollAvatar(i)
    \/ \E i \in DOMAIN pollers : pollers[i].attempt < MaxPolls /\ CallPollEdit(i)

SpecCalls == InitCalls /\ [][NextCalls]_vars

\* One job and its first polls, and then one more generation request, whose
\* result last records: the request meets a registry that may hold the job.
NextRetry ==
    \/ last = NoCall /\ submitted = 0 /\ VideoRequest /\ UNCHANGED last
    \/ last = NoCall /\ submitted = 0 /\ ImageRequest /\ UNCHANGED last
    \/ last = NoCall /\ submitted = 0 /\ MusicRequest /\ UNCHANGED last
    \/ last = NoCall /\ submitted = 0 /\ AvatarRequest /\ UNCHANGED last
    \/ last = NoCall /\ \E i \in DOMAIN pollers :
          pollers[i].attempt < MaxPolls /\ PollVideo(i) /\ UNCHANGED last
    \/ last = NoCall /\ \E i \in DOMAIN pollers :
          pollers[i].attempt < MaxPolls /\ PollImage(i) /\ UNCHANGED last
    \/ last = NoCall /\ \E i \in DOMAIN pollers :
          pollers[i].attempt < MaxPolls /\ PollMusic(i) /\ UNCHANGED last
    \/ last = NoCall /\ \E i \in DOMAIN pollers :
          pollers[i].attempt < MaxPolls /\ PollAvatar(i) /\ UNCHANGED last
    \/ last = NoCall /\ CallVideoRequest
    \/ last = NoCall /\ CallImageRequest
    \/ last = NoCall /\ CallMusicRequest
    \/ last = NoCall /\ CallAvatarRequest

SpecRetry == InitCalls /\ [][NextRetry]_vars

(***************************************************************************)
(* director.py AIDirector.analyze_intent.  A text is the set of its words; *)
(* INTENT_KEYWORDS is cut down to a few keywords of each category, and a   *)
(* keyword matches a text when it is a substring of one of its words.      *)
(* Keywords are written in ASCII: car, chase and scene are the keywords of *)
(* the Korean text of the car-chase scenario, and background_music is the  *)
(* Korean keyword for BGM, which holds the keywords background (cinematic) *)
(* and music as substrings.                                                *)
(* Scores are kept exact as numerators over a common denominator: a score  *)
(* x of the code is the numerator x * 100 * total, total being the sum of  *)
(* the keyword counts; a confidence of the refinement is given in tenths.  *)
(***************************************************************************)
\* IntentCategory in the order of its declaration, the order in which the
\* score dict is built and in which max() meets its keys
Categories ==
    <<"realism_action", "character_product", "informational", "cinematic",
      "music_audio", "unknown">>

CategorySet == {Categories[j] : j \in DOMAIN Categories}

INTENT_KEYWORDS(category) ==
    CASE category = "realism_action"    -> {"car", "chase"}
      [] category = "character_product" -> {"model"}
      [] category = "informational"     -> {"news"}
      [] category = "cinematic"         -> {"scene", "background"}
      [] category = "music_audio"       -> {"music", "background_music"}
      [] OTHER                          -> {}

\* words a text is made of; the last one holds no keyword
Words == {"car", "chase", "scene", "news", "model", "background_music", "cat"}

\* keyword in word (Python substring test) over Words
Substring(keyword, word) ==
    \/ keyword = word
    \/ word = "background_music" /\ keyword \in {"background", "music"}

KeywordCount(category, text) ==
    Cardinality({kw \in INTENT_KEYWORDS(category) :
                    \E w \in text : Substring(kw, w)})

Total(text) ==
    LET counted == Cardinality({<<c, kw>> \in
                       UNION {{<<c, k>> : k \in INTENT_KEYWORDS(c)} : c \in CategorySet} :
                       \E w \in text : Substring(kw, w)})
    IN IF counted > 0 THEN counted ELSE 1

\* common denominator of the scores of a text
Den(text) == 100 * Total(text)

calculate_intent_scores(text) ==
    LET matched == \E c \in CategorySet : KeywordCount(c, text) > 0
    IN [c \in CategorySet |->
          IF matched THEN 100 * KeywordCount(c, text)
          ELSE IF c = "cinematic" THEN 100 ELSE 0]

\* What the refinement call can come back with.  error: the call raised or
\* its text is not JSON, and _gemini_analyze returns {}.  documented: the
\* JSON object the prompt asks for, with the keys intent and confidence at
\* its top level and no key "scores".  not_dict: JSON that is not an object
\* (a list, a string, a number).  scores: an object whose key "scores" holds
\* an object with an intent and a confidence, the confidence a number (in
\* tenths) or not a number.
ConfidenceTenths == {-10, 0, 5, 10, 50}

\* confidences of the range the prompt asks for, 0.0-1.0
DocumentedConfidenceTenths == {0, 5, 10}

NoScores(shape) ==
    [shape |-> shape, intent |-> None, numeric |-> TRUE, confidence |-> 0]

GeminiAnswers ==
    {NoScores("error"), NoScores("not_dict")}
    \cup [shape : {"documented"}, intent : CategorySet \ {"unknown"},
          numeric : {TRUE}, confidence : DocumentedConfidenceTenths]
    \cup [shape : {"scores"}, intent : CategorySet \cup {"bogus"},
          numeric : {TRUE}, confidence : ConfidenceTenths]
    \cup [shape : {"scores"}, intent : CategorySet \cup {"bogus"},
          numeric : {FALSE}, confidence : {0}]

\* gemini_analysis.get("scores", {}) of analyze_intent raises on a value that
\* is not a dict, and the arithmetic of _merge_scores on a confidence that is
\* not a number
RefinementRaises(ans) ==
    \/ ans.shape = "not_dict"
    \/ ans.shape = "scores" /\ ans.intent \in CategorySet /\ ~ans.numeric

merge_scores(keyword_scores, ans, text) ==
    IF ans.shape # "scores" \/ ans.intent \notin CategorySet
    THEN keyword_scores
    ELSE [c \in CategorySet |->
            IF c = ans.intent
            THEN (keyword_scores[c] * 3) \div 10 + 7 * ans.confidence * Total(text)
            ELSE (keyword_scores[c] * 3) \div 10]

\* the last key of the largest score instead of the first
FinalIntent_last_maximum(intent_scores) ==
    LET best == CHOOSE j \in DOMAIN Categories :
                  /\ \A i \in DOMAIN Categories :
                        intent_scores[Categories[i]] <= intent_scores[Categories[j]]
                  /\ \A i \in (j + 1)..Len(Categories) :
                        intent_scores[Categories[i]] < intent_scores[Categories[j]]
    IN Categories[best]

\* max(intent_scores, key=intent_scores.get): the first key of the largest
\* score
FinalIntent(intent_scores) ==
    LET best == CHOOSE j \in DOMAIN Categories :
                  /\ \A i \in DOMAIN Categories :
                        intent_scores[Categories[i]] <= intent_scores[Categories[j]]
                  /\ \A i \in 1..(j - 1) :
                        intent_scores[Categories[i]] < intent_scores[Categories[j]]
    IN Categories[best]

route_to_tool_rows_swapped(intent) ==
    CASE intent = "realism_action"    -> [primary |-> "heygen", secondary |-> None]
      [] intent = "character_product" -> [primary |-> "kling", secondary |-> "midjourney"]
      [] intent = "informational"     -> [primary |-> "kling", secondary |-> None]
      [] intent = "cinematic"         -> [primary |-> "sora", secondary |-> None]
      [] intent = "music_audio"       -> [primary |-> "suno", secondary |-> None]
      [] OTHER                        -> [primary |-> "kling", secondary |-> None]

route_to_tool(intent) ==
    CASE intent = "realism_action"    -> [primary |-> "kling", secondary |-> None]
      [] intent = "character_product" -> [primary |-> "kling", secondary |-> "midjourney"]
      [] intent = "informational"     -> [primary |-> "heygen", secondary |-> None]
      [] intent = "cinematic"         -> [primary |-> "sora", secondary |-> None]
      [] intent = "music_audio"       -> [primary |-> "suno", secondary |-> None]
      [] OTHER                        -> [primary |-> "kling", secondary |-> None]

\* the analysis of a text: raised is TRUE when analyze_intent ends in an
\* exception instead of returning; confidence is over the denominator den
Analysis(text, ans, raised, intent_scores) ==
    LET final_intent == FinalIntent(intent_scores)
    IN [op |-> "analyze_intent", text |-> text, gemini |-> ans, raised |-> raised,
        intent |-> IF raised THEN None ELSE final_intent,
        confidence |-> IF raised THEN 0 ELSE intent_scores[final_intent],
        den |-> Den(text), intent_scores |-> intent_scores,
        primary_tool |-> IF raised THEN None ELSE route_to_tool(final_intent).primary]

analyze_intent(text, ans) ==
    LET keyword_scores == calculate_intent_scores(text)
    IN IF "gemini" \notin creds
       THEN Analysis(text, ans, FALSE, keyword_scores)
       ELSE IF RefinementRaises(ans)
       THEN Analysis(text, ans, TRUE, keyword_scores)
       ELSE Analysis(text, ans, FALSE, merge_scores(keyword_scores, ans, text))

\* The director keeps nothing between two analyses: one analysis from the
\* state after construction covers them all.
MaxWords == 3

\* the texts of at most MaxWords words
Texts == {text \in SUBSET Words : Cardinality(text) <= MaxWords}

CallAnalyzeIntent ==
    /\ last = NoCall
    /\ \E text \in Texts, ans \in GeminiAnswers :
          /\ last' = analyze_intent(text, ans)
          /\ UNCHANGED tvars

\* main.py generate_video with use_director and model "auto": the director's
\* primary tool is the selected model, which model_map turns into the video
\* model of the dispatch and which routing_info reports to the caller.  An
\* exception of analyze_intent ends the handler before anything is dispatched.
AutoVideoRequestCall(text, analysis, has_image, result, model, calls) ==
    [op |-> "generate_video", requested |-> "auto", use_director |-> TRUE,
     text |-> text, has_image |-> has_image, raised |-> analysis.raised,
     routing_info |-> [intent |-> analysis.intent,
                       selected_model |-> analysis.primary_tool,
                       confidence |-> analysis.confidence, den |-> analysis.den],
     provider |-> VideoProvider(model), success |-> result.success,
     task_id |-> result.task_id, message |-> result.message,
     model |-> model, calls |-> calls]

\* answers of the provider to the submit of such a request: accepted, or
\* rejected
AutoSubmitAnswers == {"ok", "http_500"}

CallAutoVideoRequest ==
    /\ last = NoCall
    /\ \E project_id \in ProjectIds, text \in Texts, gemini \in GeminiAnswers,
          ans \in AutoSubmitAnswers, has_image \in BOOLEAN :
        LET analysis == analyze_intent(text, gemini)
            model == video_model_map(analysis.primary_tool)
            video_model == IF has_image THEN "kling" ELSE model
            result == FactoryGenerateVideo(video_model, ans)
        IN IF analysis.raised
              THEN /\ UNCHANGED tvars
                   /\ last' = AutoVideoRequestCall(text, analysis, has_image,
                                  ErrorResponse("analyze_intent raised"), None, << >>)
              ELSE /\ generate_video(project_id, model, has_image, ans)
                   /\ last' = AutoVideoRequestCall(text, analysis, has_image, result,
                                  video_model, VideoSubmitCalls(video_model, ans))

\* The director, with and without the Gemini key in the environment, alone
\* and in front of the video dispatch with the keys of both video providers.
InitDirector ==
    /\ creds \in {{}, {"gemini"}, {"kling", "goapi"}, {"gemini", "kling", "goapi"}}
    /\ task_store = << >>
    /\ pollers = << >>
    /\ submitted = 0
    /\ last = NoCall

NextDirector ==
    \/ CallAnalyzeIntent
    \/ CallAutoVideoRequest

SpecDirector == InitDirector /\ [][NextDirector]_vars

(***************************************************************************)
(* Properties of the job lifecycle tracker                                 *)
(***************************************************************************)
Keys == DOMAIN task_store

\* poller i has just performed one iteration of its loop
Polled(i) == pollers'[i].attempt = pollers[i].attempt + 1

PollTaken == \E i \in DOMAIN pollers : Polled(i)

\* C1: once a registry entry holds status completed or failed, no later poll
\* result changes its status, progress or result url.
C1_TerminalIsSticky ==
    [][\A k \in Keys :
          (PollTaken /\ task_store[k].status \in Terminal)
              => /\ task_store'[k].status = task_store[k].status
                 /\ task_store'[k].progress = task_store[k].progress
                 /\ task_store'[k].url = task_store[k].url]_vars

\* C2: a poller whose provider never reported a terminal status has marked
\* its job failed, with an error message, when it has used up max_attempts
\* polls, and the job is not marked failed while the poller is still running.
C2_TimeoutMarksFailed ==
    \A i \in DOMAIN pollers :
        ~pollers[i].signalled =>
            /\ pollers[i].pc = "exhausted" =>
                    /\ task_store[pollers[i].key].status = "failed"
                    /\ task_store[pollers[i].key].error_message # None
            /\ pollers[i].pc = "running" =>
                    task_store[pollers[i].key].status # "failed"

\* C3: no two pollers that are running at the same time write the same
\* registry entry.
C3_SingleWriter ==
    \A i, j \in DOMAIN pollers :
        (i # j /\ pollers[i].pc = "running" /\ pollers[j].pc = "running")
            => pollers[i].key # pollers[j].key

\* C4: every accepted submission has its own registry entry, which holds the
\* task id the provider returned for it; no later submission replaces it.
C4_OneEntryPerSubmission ==
    \A i \in DOMAIN pollers :
        /\ pollers[i].key \in Keys
        /\ task_store[pollers[i].key].task_id = pollers[i].task_id

\* C5: an entry whose status is completed stores a result url.
C5_CompletedHasUrl ==
    \A k \in Keys : task_store[k].status = "completed" => task_store[k].url # None

\* C6: the status of every entry is one of pending, processing, completed,
\* failed.
C6_CanonicalStatus ==
    \A k \in Keys : task_store[k].status \in Canonical

\* C7: from one poll of a job to its next poll the stored progress does not
\* decrease while the stored status is non-terminal before and after.
C7_ProgressMonotone ==
    [][\A i \in DOMAIN pollers :
          (/\ Polled(i)
           /\ pollers[i].attempt >= 1
           /\ task_store[pollers[i].key].status \notin Terminal
           /\ task_store'[pollers[i].key].status \notin Terminal)
              => task_store'[pollers[i].key].progress
                     >= task_store[pollers[i].key].progress]_vars

\* C8: the stored progress is 100 exactly when the stored status is completed.
C8_HundredIffCompleted ==
    \A k \in Keys : task_store[k].progress = 100 <=> task_store[k].status = "completed"

\* C9: the stored progress is 0 exactly when the stored status is failed (and
\* no result url is stored).
C9_ZeroIffFailed ==
    \A k \in Keys :
        task_store[k].progress = 0
            <=> (task_store[k].status = "failed" /\ task_store[k].url = None)

\* C10: while the stored status is non-terminal the stored progress lies in
\* 10..90.
C10_NonTerminalProgressRange ==
    \A k \in Keys :
        task_store[k].status \notin Terminal
            => (task_store[k].progress >= 10 /\ task_store[k].progress <= 90)

\* C11: in every reachable state an entry of the registry holds a result URL
\* only when its status is 'completed' (no submission and no poll stores a URL
\* together with a non-terminal or failed status).
C11_UrlOnlyWhenCompleted ==
    \A k \in Keys : task_store[k].url # None => task_store[k].status = "completed"

\* C12: in every reachable state an entry whose status is 'failed' carries a
\* non-empty error message.
C12_FailedHasErrorMessage ==
    \A k \in Keys :
        task_store[k].status = "failed"
            => task_store[k].error_message \notin {None, ""}

(***************************************************************************)
(* Properties of polling and dispatch, over the recorded operations        *)
(***************************************************************************)
PollOps == {"poll_video_status", "poll_image_status", "poll_music_status",
            "poll_avatar_status", "poll_edit_status"}

SubmitOps == {"generate_video", "generate_image", "generate_music",
              "generate_avatar", "auto_edit_video"}

\* C13: a poll whose status query itself fails does not end the job: the
\* entry is not moved to a terminal status by it, and the poller stays in its
\* loop as long as its budget is not exhausted.
C13_TransientPollFailureKeepsPolling ==
    [][\A i \in DOMAIN pollers :
         (Polled(i) /\ ~last'.success)
             => LET p == pollers[i]
                IN /\ p.key \in DOMAIN task_store
                        => (task_store'[p.key].status \in Terminal
                              => task_store'[p.key].status = task_store[p.key].status)
                   /\ pollers'[i].attempt < max_attempts(p.kind)
                        => pollers'[i].pc = "running"]_vars

\* a poller has had a status query fail and is still in its loop, its job
\* not terminal
C13_Witness ==
    /\ last.op \in PollOps
    /\ ~last.success
    /\ \E i \in DOMAIN pollers :
          /\ pollers[i].attempt >= 1
          /\ pollers[i].pc = "running"
          /\ pollers[i].key \in Keys
          /\ task_store[pollers[i].key].status \notin Terminal

\* C14: once a status check of a job answers 'completed', every later status
\* check of that job answers the same result URL, whatever submissions and
\* polls happen in between.
C14_CompletedUrlStable ==
    [][\A k \in Keys :
         /\ get_factory_status(k).status = "completed"
                => get_factory_status(k)'.url = get_factory_status(k).url
         /\ (k \in ProjectIds /\ get_video_progress(k).status = "completed")
                => get_video_progress(k)'.url = get_video_progress(k).url]_vars

\* the adapters an operation called, and the failure classes of a submit
Adapters(calls) == {calls[j].to : j \in DOMAIN calls}
TransientFailures == {"http_500", "timeout"}
AuthOrQuotaFailures == {"http_401", "http_402"}

\* preferred music adapter failed with a transient error, fallback accepted
FallbackTaken ==
    /\ last.op = "generate_music"
    /\ Len(last.calls) = 2
    /\ last.calls[1].to = "suno" /\ last.calls[1].ans \in TransientFailures
    /\ last.calls[2].to = "udio" /\ last.calls[2].ans \notin SubmitFailures

C17_PollsStayWithAcceptingAdapter ==
    last.op \in PollOps => Adapters(last.calls) \subseteq {last.provider}

\* C18: a generate or edit operation whose provider has no credentials
\* returns a failure that reports the provider as not configured, sends no
\* request over the network and registers no job.
C18_AbsentCredentialsFail ==
    (last.op \in SubmitOps /\ last.provider \notin creds)
        => /\ ~last.success
           /\ last.message = "not configured"
           /\ last.calls = << >>
           /\ task_store = << >>

\* C19: the music dispatcher, the one with a preferred and an alternate
\* adapter, submits to the preferred adapter first; when that submit fails it
\* submits to exactly one alternate, different from the preferred one, and
\* when it succeeds to none.  No request of any kind causes more than two
\* submit calls.
C19_ExactlyOneAlternate ==
    /\ last.op \in SubmitOps => Len(last.calls) <= 2
    /\ (last.op = "generate_music" /\ last.calls # << >>)
          => /\ last.calls[1].to = "suno"
             /\ last.calls[1].ans \in SubmitFailures
                   => /\ Len(last.calls) = 2
                      /\ last.calls[2].to = "udio"
                      /\ last.calls[2].to # last.calls[1].to
             /\ last.calls[1].ans \notin SubmitFailures => Len(last.calls) = 1

\* a music request whose preferred and alternate submits both failed
C19_Witness ==
    /\ last.op = "generate_music"
    /\ Len(last.calls) = 2
    /\ last.calls[1].ans \in SubmitFailures
    /\ last.calls[2].ans \in SubmitFailures
    /\ ~last.success

\* C20: when the preferred music adapter's submit fails with an
\* authentication or quota error (HTTP 401 or 402), no submit goes to the
\* fallback adapter, and the failure returned differs from the one returned
\* for a transient failure.
C20_NoFallbackOnAuthOrQuota ==
    (/\ last.op = "generate_music"
     /\ last.calls # << >>
     /\ last.calls[1].ans \in AuthOrQuotaFailures)
        => /\ Len(last.calls) = 1
           /\ ~last.success
           /\ \A t \in TransientFailures, f \in SubmitAnswers :
                 last.message # FactoryGenerateMusic(t, f).message

\* a music request whose preferred and fallback submits both failed
BothFailed ==
    /\ last.op = "generate_music"
    /\ Len(last.calls) = 2
    /\ last.calls[1].ans \in SubmitFailures
    /\ last.calls[2].ans \in SubmitFailures

\* C21: when the preferred and the fallback music adapter both fail, the
\* failure the caller receives preserves both underlying error messages: two
\* double failures whose answers to the caller are the same text had the same
\* two underlying messages.
C21_BothMessagesPreserved ==
    BothFailed
        => LET surfaced(a, f) == MusicHttpResponse(FactoryGenerateMusic(a, f)).detail
               suno_msg(a) == GenerateMusicWithModel(a, "suno").message
               udio_msg(f) == GenerateMusicWithModel(f, "udio").message
           IN \A a \in SubmitFailures, f \in SubmitFailures :
                 surfaced(a, f) = surfaced(last.calls[1].ans, last.calls[2].ans)
                    => /\ suno_msg(a) = suno_msg(last.calls[1].ans)
                       /\ udio_msg(f) = udio_msg(last.calls[2].ans)

ComposeOps == {"concat_videos", "merge_videos_with_music"}

\* C22: a compose request over fewer than two video urls (concat_videos,
\* merge_videos_with_music) is rejected with an error and sends no request
\* over the network.
C22_ComposeNeedsTwoSources ==
    (last.op \in ComposeOps /\ last.video_urls < 2)
        => (~last.success /\ last.calls = << >>)

\* C23: a generation request that names an unknown model id is rejected at
\* once: the result is a failure, no adapter was submitted to and no job is
\* registered.
C23_UnknownProviderRejected ==
    (/\ last.op \in {"generate_video", "generate_image"}
     /\ last.requested = UnknownModel)
        => /\ ~last.success
           /\ last.calls = << >>
           /\ task_store = << >>

(***************************************************************************)
(* Properties of the director                                              *)
(***************************************************************************)
Analysed == last.op = "analyze_intent"

NoKeyword(text) == \A c \in CategorySet : KeywordCount(c, text) = 0

KeywordIntent(text) == FinalIntent(calculate_intent_scores(text))

\* C24: a text without any keyword of any category is classified as the
\* default category cinematic, with or without the refinement and whatever
\* the refinement answers.
C24_NoKeywordDecidesDefault ==
    (Analysed /\ NoKeyword(last.text) /\ ~last.raised)
        => last.intent = "cinematic"

\* the refinement failed: the call raised or its answer is not JSON, the
\* answer is not a JSON object, or its confidence is not a number
RefinementFailed(ans) ==
    \/ ans.shape \in {"error", "not_dict"}
    \/ ans.shape = "scores" /\ ~ans.numeric

\* C25: when the refinement fails, analyze_intent still returns a decision,
\* and the decision is the one of the keyword scores alone.
C25_RefinementFailureKeepsKeywordResult ==
    (Analysed /\ "gemini" \in creds /\ RefinementFailed(last.gemini))
        => /\ ~last.raised
           /\ last.intent = KeywordIntent(last.text)
           /\ last.confidence = calculate_intent_scores(last.text)[last.intent]

\* C26: the confidence of every returned decision lies in [0,1], that is,
\* its numerator lies between 0 and the denominator.
C26_ConfidenceInUnitInterval ==
    (Analysed /\ ~last.raised)
        => (0 <= last.confidence /\ last.confidence <= last.den)

\* the car-chase scenario: two realism/action keywords, one cinematic keyword
\* and no other keyword
CarChase(text) ==
    \A c \in CategorySet :
        KeywordCount(c, text) = (CASE c = "realism_action" -> 2
                                   [] c = "cinematic" -> 1
                                   [] OTHER -> 0)

\* the decision rests on the keyword scores: there is no refinement, or the
\* refinement hands no scores to the merge (it failed inside _gemini_analyze,
\* or it answered in the format the prompt asks for)
KeywordPath ==
    "gemini" \notin creds \/ last.gemini.shape \in {"error", "documented"}

Submitted == submitted' = submitted + 1

\* the registry key of the job registered last
NewKey == pollers'[Len(pollers')].key

\* C28: right after a successful submission, before any poll of the job,
\* the job's registry entry has status pending (processing comes only with
\* a poll that reports a non-terminal provider status).
C28_PendingAfterSubmission ==
    [][Submitted => task_store'[NewKey].status = "pending"]_vars

\* C29: dispatching a request leaves the caller's request object as it was:
\* after FactoryEngine.generate_image every field of the request, its model
\* in particular, has the value it had when the request was handed over.
C29_RequestImmutable ==
    last.op = "factory_generate_image" => last.request_after = last.request

\* C30: style resolution never fails and falls back to warm_film: whenever
\* an adapter builds the body of a video request whose style preset id is
\* unknown or empty, the preset it uses is the preset of warm_film, and the
\* prompt it sends is the prompt enhanced with that preset.
C30_UnknownStyleResolvesToDefault ==
    (/\ last.op = "generate_video"
     /\ last.calls # << >>
     /\ last.style_preset \notin DOMAIN STYLE_PRESETS)
        => /\ last.preset = StylePreset(last.model, "warm_film")
           /\ last.preset = STYLE_PRESETS["warm_film"]
           /\ last.prompt = EnhancedPrompt(Prompt, STYLE_PRESETS["warm_film"])

C30_Witness ==
    /\ last.op = "generate_video"
    /\ last.calls # << >> /\ last.calls[1].to = "kling"
    /\ last.style_preset = ""
    /\ last.preset = STYLE_PRESETS["warm_film"]

\* the adapter of GoAPI resolves an unknown id in the same way
C30_WitnessGoAPI ==
    /\ last.op = "generate_video"
    /\ last.calls # << >> /\ last.calls[1].to = "goapi"
    /\ last.style_preset = "unknown_style"
    /\ last.preset = STYLE_PRESETS["warm_film"]

(***************************************************************************)
(* Properties of the pollers                                               *)
(***************************************************************************)
\* C31: a poller polls at most max_attempts times, and it polls no more once
\* the registry entry of its job holds a terminal status (no operation
\* stops a poller from outside: its loop ends by break or by exhaustion).
C31_PollerStopsAtTerminal ==
    [][\A i \in DOMAIN pollers :
          Polled(i) =>
              /\ pollers[i].attempt < max_attempts(pollers[i].kind)
              /\ task_store[pollers[i].key].status \notin Terminal]_vars

\* the generation requests whose handlers start a poller for the task id
\* the dispatch returned
GenerationOps == {"generate_video", "generate_image", "generate_music",
                  "generate_avatar"}

\* the handler of the request recorded in call answered 200: the dispatch
\* succeeded and, for a video, returned a task id
Accepted(call) ==
    call.success /\ (call.op = "generate_video" => call.task_id # None)

\* C32: a generation request (video, image, music, avatar) that is accepted
\* starts exactly one poller, which polls the task id the request returned;
\* a rejected request starts none.
C32_OnePollerPerAcceptedRequest ==
    [][last'.op \in GenerationOps =>
          IF Accepted(last')
          THEN /\ Len(pollers') = Len(pollers) + 1
               /\ SubSeq(pollers', 1, Len(pollers)) = pollers
               /\ pollers'[Len(pollers')].task_id = last'.task_id
               /\ pollers'[Len(pollers')].pc = "running"
               /\ pollers'[Len(pollers')].attempt = 0
          ELSE pollers' = pollers]_vars

C32_Witness ==
    /\ last.op = "generate_avatar" /\ Accepted(last)
    /\ Len(pollers) = 1
    /\ pollers[1].kind = "avatar" /\ pollers[1].task_id = last.task_id

\* status, progress and result url of a status response
Snapshot(resp) == <<resp.status, resp.progress, resp.url>>

\* what generate_video and generate_avatar register
RegisteredSnapshot == <<"processing", 10, None>>

\* the snapshots one poll of poller p can write: one for each answer of the
\* provider to its status query
PollSnapshots(p) ==
    IF p.kind = "video"
    THEN {Snapshot([status |-> r.status, progress |-> r.progress, url |-> r.video_url]) :
            r \in {CheckVideoStatus(p.task_id, p.model, a[1], a[2]) :
                     a \in VideoAnswers(p.model)}}
    ELSE IF p.kind = "avatar"
    THEN {Snapshot([status |-> r.status, progress |-> r.progress, url |-> r.video_url]) :
            r \in {HeyGenCheckStatus(p.task_id, a) : a \in HeyGenAnswers}}
    ELSE {}

ReturnedKnownCategory(ans) ==
    /\ ans.shape \in {"documented", "scores"}
    /\ ans.intent \in CategorySet
    /\ ans.numeric

\* the score of the decision is maximal
DecisionIsMaximal ==
    \A c \in CategorySet : last.intent_scores[c] <= last.intent_scores[last.intent]

\* C34: with the refinement available, a returned known category c with
\* confidence g gives every category x the score 0.3*k(x), plus 0.7*g for
\* x = c, and the decision has a maximal blended score; an empty result or a
\* category outside the fixed set leaves the keyword scores as they are.
C34_BlendedScores ==
    (Analysed /\ "gemini" \in creds) =>
        LET k == calculate_intent_scores(last.text)
            ans == last.gemini
        IN /\ ReturnedKnownCategory(ans) =>
                /\ ~last.raised
                /\ \A x \in CategorySet :
                      10 * last.intent_scores[x] =
                          3 * k[x] + (IF x = ans.intent
                                      THEN 70 * ans.confidence * Total(last.text)
                                      ELSE 0)
                /\ DecisionIsMaximal
           /\ (ans.shape = "error" \/ (ans.shape = "scores" /\ ans.intent = "bogus" /\ ans.numeric)) =>
                /\ ~last.raised
                /\ last.intent_scores = k
                /\ DecisionIsMaximal

(***************************************************************************)
(* Properties of the video dispatch                                        *)
(***************************************************************************)
TextToVideoOnly == {"veo", "sora"}

\* C35: a video request with a source image that names Veo or Sora does not
\* fail because of the image: it succeeds whenever the same request without
\* the image succeeds, and the body sent for it holds no image reference; a
\* body sent to an image-capable provider holds the image reference exactly
\* when the request has one.
C35_ImageDroppedNotFatal ==
    last.op = "generate_video" =>
        /\ (/\ last.requested \in TextToVideoOnly /\ last.has_image
            /\ FactoryGenerateVideo(video_model_map(last.requested),
                                    last.answer).success)
              => last.success
        /\ (last.calls # << >> /\ last.model \in TextToVideoOnly) =>
              ~last.body_has_image
        /\ (last.calls # << >> /\ last.model \notin TextToVideoOnly) =>
              last.body_has_image = last.has_image

\* a Kling request that the official adapter did not accept: the adapter has
\* no credentials, or its submit failed
KlingOfficialFailed ==
    /\ last.op = "generate_video"
    /\ last.model = "kling"
    /\ \/ "kling" \notin creds
       \/ (last.calls # << >> /\ last.calls[1].ans \in SubmitFailures)

C37_DispatchedModelIsReportedModel ==
    (last.op = "generate_video" /\ last.use_director /\ ~last.raised)
        => last.model = last.routing_info.selected_model

(***************************************************************************)
(* Properties of the registry                                              *)
(***************************************************************************)
\* C38: every registry entry holds a provider task id, and every poller
\* polls one: a submission answered without a task id is neither registered
\* nor polled.
C38_EntriesHaveTaskId ==
    /\ \A k \in Keys : task_store[k].task_id # None
    /\ \A i \in DOMAIN pollers : pollers[i].task_id # None

\* C39: a generation request whose dispatch fails leaves the registry and
\* the pollers as they were: no entry is created or overwritten, and no
\* poller is started.
C39_FailedRequestLeavesRegistry ==
    [][(last'.op \in GenerationOps /\ ~Accepted(last'))
          => (task_store' = task_store /\ pollers' = pollers)]_vars

\* a rejected video request for a project whose earlier job is completed
C39_Witness ==
    /\ last.op = "generate_video" /\ ~Accepted(last)
    /\ "p1" \in Keys
    /\ task_store["p1"].status = "completed" /\ task_store["p1"].url = Url
    /\ Len(pollers) = 1

\* place of a category in the fixed order
Position(category) == CHOOSE j \in DOMAIN Categories : Categories[j] = category

\* C40: without the refinement the decision is fixed by the text: it is the
\* one category whose keyword score is maximal and strictly greater than the
\* score of every category before it in the fixed order, and it is never
\* the category unknown.
C40_KeywordDecisionDeterministic ==
    (Analysed /\ "gemini" \notin creds) =>
        LET k == calculate_intent_scores(last.text)
        IN /\ ~last.raised
           /\ last.intent \in CategorySet \ {"unknown"}
           /\ \A c \in CategorySet :
                 /\ k[c] <= k[last.intent]
                 /\ Position(c) < Position(last.intent) => k[c] < k[last.intent]

\* two categories share the maximal score and the earlier one is selected
C40_Witness ==
    /\ Analysed /\ "gemini" \notin creds
    /\ last.text = {"car", "news"}
    /\ last.intent = "realism_action"
    /\ last.intent_scores["informational"] = last.intent_scores["realism_action"]

=============================================================================
